---- MODULE Spec2Model ----
(***************************************************************************)
(* Rendezvous server of POC-Audio-Server: the user registry                *)
(* (server/utils/user_manager.py), the connection broker and control-plane *)
(* API (server/video_chat_server.py, ServerAPI / VideoChatServer) and the  *)
(* signaling channel (SocketAPI) with its serving thread.                  *)
(*                                                                         *)
(* Conventions of the translation.                                         *)
(*  - The modules user.py, utils (Endpoint, the exception classes) and     *)
(*    exceptions are imported by the sources but are not part of src/;     *)
(*    the User record is modelled from the data model of spec.md.          *)
(*  - video_chat_server.py calls the registry as add_user(endpoint) ->     *)
(*    (id, token) and get_user_by_id(id); user_manager.py defines          *)
(*    add_user() -> id and get_user(id).  The calls are resolved to the    *)
(*    methods of user_manager.py that they evidently name.                 *)
(*  - UserManager.add_user hands the storage None as the record of the    *)
(*    new user (the construction of the User is commented out), while      *)
(*    every reader takes a User from the storage.  UserManager_add_user    *)
(*    and SpecManager keep the None; add_user, the registration the        *)
(*    server's runs go through, stores the User of spec.md: IDLE, without  *)
(*    peer, with the session token generate_token derives from the id.     *)
(*  - ServerState.INIT (SocketAPI.init/run/kill) names the member          *)
(*    INITIALIZED, and SocketAPI.run's call of set_websocket_endpoint      *)
(*    names VideoChatServerBuilder.set_websocket_endpoint.                 *)
(*  - User ids are modelled by the integer that encodes their byte         *)
(*    string, so that the bytewise a ^ b of generate_conn_token is the     *)
(*    bitwise exclusive or of the two integers; sha256 is modelled as an   *)
(*    injective tagging of its input.                                      *)
(*  - The control-plane WSGI server serves one request at a time (its      *)
(*    handlers make blocking calls that never yield); the SocketAPI        *)
(*    thread started by start_websocket runs concurrently with it.         *)
(*  - SocketAPI.run is taken in the blocks the broker can tell apart in    *)
(*    Spec (run, run_serve, run_in_use) and one statement at a time in     *)
(*    SpecChannel (run_check, run_set_live, run_bound, run_except), where  *)
(*    the handlers of the channel's clients observe the state in between.  *)
(*  - The media plane is one client's AVController with its audio          *)
(*    namespace (SpecAudio) and the video namespace of                     *)
(*    src/server/utils/namespaces (SpecVideo).  The holder of the video    *)
(*    namespace's self.av.key is not under src/; it is modelled after      *)
(*    spec.md section 4.4 as an engine that replaces the pair as a whole.  *)
(*    A received message is its header's index, the key its payload was    *)
(*    encrypted with and whether the payload is intact.                    *)
(*  - The ciphers are applied to arguments drawn in the initial state      *)
(*    (SpecXOR, SpecAES).  AES is a keyed permutation of blocks; bytes     *)
(*    and blocks are scaled down, the conversions between bitarrays and    *)
(*    bytes, the padding and the chaining are computed as the code does.   *)
(***************************************************************************)
EXTENDS Integers, Sequences, FiniteSets, TLC

\* ----------------------------------------------------------------- bounds
NumIds == 2            \* size of the id space generate_user_id draws from
MaxThreads == 1        \* SocketAPI threads alive at once
MaxPortTries == 1      \* occupied ports above the default port
MaxCode == 5           \* largest id code the token's algebra is checked on
MaxTicks == 3          \* iterations of a key generation loop
NumKeys == 2           \* distinct key values a generator yields
KeyWindow == 2         \* the window W of the specification's key store
MaxBits == 3           \* longest bit string given to the XOR cipher
ByteBits == 2          \* bits of a byte, scaled down from 8
BlockBytes == 2        \* bytes of a cipher block, scaled down from AES.block_size
MaxBytes == 2          \* longest payload given to the AES cipher
MaxGen == 2            \* periods of send_keys
MaxFrames == 3         \* frames sent on a data channel

\* -------------------------------------------------------------- constants
BasePort == 3000       \* SocketAPI.DEFAULT_ENDPOINT

Ids == 0 .. (NumIds - 1)
NoId == 0 - 1          \* Python None where a user id is expected
NoPort == 0 - 1        \* no endpoint

UserStates == {"IDLE", "CONNECTING", "CONNECTED"}

\* class ServerState(Enum), in definition order
ServerStates == <<"NEW", "INITIALIZED", "CLOSED", "LIVE", "OPEN">>

\* arr.index(state) of ServerState.__lt__
StateIndex(s) == CHOOSE i \in 1 .. Len(ServerStates) : ServerStates[i] = s

\* mutant: no state is below another
StateLt_never(a, b) == FALSE

\* ServerState.__lt__
StateLt(a, b) == StateIndex(a) < StateIndex(b)

\* ----------------------------------------------------------------- tokens
NoToken == [kind |-> "None", n |-> 0]
ForgedToken == [kind |-> "forged", n |-> 0]

RECURSIVE Xor(_, _)
\* bytes(a ^ b for a, b in zip(id1.encode(), id2.encode()))
Xor(a, b) ==
    IF a = 0 /\ b = 0 THEN 0
    ELSE (((a % 2) + (b % 2)) % 2) + (2 * Xor(a \div 2, b \div 2))

\* UserManager.generate_token: sha256 of the id's bytes
generate_token(user_id) == [kind |-> "sha256_id", n |-> user_id]

\* mutant: the two ids are chained, not xor-ed
generate_conn_token_chained(a, b) == [kind |-> "sha256_xor", n |-> (2 * a) + b]

\* mutant: the token does not depend on the ids
generate_conn_token_fixed(a, b) == [kind |-> "sha256_xor", n |-> 0]

\* SocketAPI.generate_conn_token: sha256 of the xor of the two ids' bytes
generate_conn_token(a, b) == [kind |-> "sha256_xor", n |-> Xor(a, b)]

\* SocketAPI.generate_sess_token: sha256 of the id's bytes
generate_sess_token(user_id) == [kind |-> "sha256_id", n |-> user_id]

\* a freshly constructed User: idle, no peer, token derived from the id
User(user_id) ==
    [sess_token |-> generate_token(user_id), state |-> "IDLE", peer |-> NoId]

\* Python None where the storage holds it in the place of a User
NoneInfo == [sess_token |-> NoToken, state |-> "None", peer |-> NoId]

\* --------------------------------------------------------- media values
\* the key values a generator can yield, and no key
Keys == 0 .. NumKeys - 1
NoKey == 0 - 1

\* the elements of AVController.keys: Python ints and bytes objects
IntElem(n) == [type |-> "int", value |-> n]
BytesElem(k) == [type |-> "bytes", value |-> k]

\* a media message: the index in its 4-byte header, the key its payload was
\* encrypted with, whether the payload arrived intact, and whether its
\* sender is the receiving client itself
Frame(idx, k, intact, own) == [key_idx |-> idx, key |-> k, intact |-> intact, own |-> own]
NoFrame == Frame(-1, NoKey, FALSE, FALSE)

\* the pair (cur_key_idx, key) held in self.av.key
Pair(idx, k) == [key_idx |-> idx, key |-> k]
NoPair == Pair(-1, NoKey)

\* send_video's locals outside an iteration
Idle == [pc |-> "top", pair |-> NoPair]

\* the codec's input and output where no codec ran
NoCodec == [data |-> <<>>, key |-> <<>>, iv |-> <<>>, encrypted |-> <<>>, decrypted |-> <<>>]

\* ------------------------------------------------------------------ state
VARIABLES
    users,        \* DictUserStorage.users: id -> User
    server_state, \* VideoChatServer.server_state
    sockState,    \* SocketAPI.state
    connToken,    \* SocketAPI.conn_token
    sockUsers,    \* SocketAPI.users: id -> User object or per-connection token
    wsPort,       \* VideoChatServer.websocket_endpoint (its port)
    sockPort,     \* SocketAPI.endpoint (its port)
    threads,      \* SocketAPI threads: slot -> position in run()
    req,          \* the /peer_connection request being served, if any
    keys,         \* AVController.keys
    key_idx,      \* the counter key_idx of AVController's gen_keys
    av_key,       \* self.av.key of the video namespace: the current pair
    loop,         \* send_video's loop: its position and the pair it read
    apiState,     \* ServerAPI.state
    sio_connected,\* SocketClient.sio.connected of one client
    caller,       \* that client's connect_to_peer: where it is
    rtc,          \* the two peers of the data-channel client and their channels
    last          \* the last completed operation and what it answered

\* the media plane
media == <<keys, key_idx, av_key, loop>>

\* the control-plane service
service == <<apiState>>

\* one client of the frontend
client == <<sio_connected, caller>>

vars == <<users, server_state, sockState, connToken, sockUsers, wsPort, sockPort, threads, req, media, service, client, rtc, last>>

NoReq == [active |-> FALSE, user_id |-> NoId, peer_id |-> NoId,
          sess_token |-> NoToken, requester |-> User(NoId), host |-> User(NoId),
          before |-> <<>>,
          notif |-> [sess_token |-> NoToken, peer_id |-> NoId,
                     socket_endpoint |-> NoPort, conn_token |-> NoToken]]

NoNotif == NoReq.notif
NoRet == [socket_endpoint |-> NoPort, conn_token |-> NoToken]

\* what an operation answered; the fields an operation does not use keep
\* their neutral value.  requester and host are the handler's copies of the
\* two users, generated counts the calls of generate_user_id, before is the
\* registry and token_before the SocketAPI.conn_token as the operation found
\* them, state and peer are the arguments of set_user_state, found is the
\* ServerState and stored the SocketAPI.users the operation found, issued is
\* the token on_connect emitted, kept is AVController.keys as gen_keys found
\* it, index and key what it stored, pair the pair send_video read, frame
\* the message sent or received, used the key a receiver looked up,
\* delivered whether the payload reached the output, prev the result of the
\* receive before this one, codec a cipher's input and output, answer what
\* the user said to the question, outcome how sio.connect ended, established
\* whether the client's socket is connected after the operation, target the
\* endpoint and connection token the client was to connect with, returned
\* what the client's method returned, sender the user as whom the socket
\* that sent a message completed the handshake
Answer(op, result) ==
    [op |-> op, result |-> result, status |-> "-",
     user_id |-> NoId, peer_id |-> NoId, sess_token |-> NoToken,
     requester |-> User(NoId), host |-> User(NoId),
     opened |-> FALSE, notif |-> NoNotif, response |-> "-", ret |-> NoRet,
     generated |-> 0, before |-> <<>>,
     state |-> "-", peer |-> NoId, token_before |-> NoToken,
     found |-> "-", stored |-> <<>>, issued |-> NoToken,
     kept |-> <<>>, index |-> -1, key |-> NoKey, pair |-> NoPair,
     frame |-> NoFrame, used |-> NoKey, delivered |-> FALSE, prev |-> "-",
     codec |-> NoCodec, answer |-> "-", outcome |-> "-", established |-> FALSE,
     target |-> NoRet, returned |-> "-", sender |-> NoId]

\* the data-channel client (src/client/rpc/rtcClient.py), one medium: the
\* keys are named by numbers, the n-th key the offering peer generates in
\* send_keys is n, the key its generator made in run is 0 and the key the
\* answering peer's own generator made in run is OtherKey.  sender_key and
\* receiver_key are key[medium] of the two peers, sender_queue and
\* receiver_queue their key_queue[medium], key_channel and data_channel the
\* messages in flight, each channel in order, made and sent the keys and
\* the frames sent so far.
OtherKey == 0 - 2

Opened ==
    [sender_key |-> 0, sender_queue |-> <<>>,
     receiver_key |-> OtherKey, receiver_queue |-> <<>>,
     key_channel |-> <<>>, data_channel |-> <<>>, made |-> 0, sent |-> 0]

\* the state after construction, but for the record of the last operation
Built ==
    /\ users = <<>>
    /\ server_state = "INITIALIZED"
    /\ sockState = "NEW"
    /\ connToken = NoToken
    /\ sockUsers = <<>>
    /\ wsPort = BasePort
    /\ sockPort = BasePort
    /\ threads = [t \in 1 .. MaxThreads |-> "none"]
    /\ req = NoReq
    /\ keys = <<>>
    /\ key_idx = 0
    /\ av_key = Pair(0, 0)
    /\ loop = Idle
    /\ apiState = "INIT"
    /\ sio_connected = FALSE
    /\ caller = "idle"
    /\ rtc = Opened

Init ==
    /\ Built
    /\ last = Answer("build", "OK")

\* ------------------------------------------------------------ the registry
\* dict assignment  d[k] = v
Put(f, k, v) == (k :> v) @@ [x \in DOMAIN f \ {k} |-> f[x]]

\* del d[k]
Del(f, k) == [x \in DOMAIN f \ {k} |-> f[x]]

\* mutant: the storage overwrites instead of testing for the id
DuplicateUser_unchecked(user_id) == FALSE

\* DictUserStorage.add_user: "if user_id in self.users: raise DuplicateUser"
DuplicateUser(user_id) == user_id \in DOMAIN users

\* DictUserStorage.get_user / update_user / remove_user:
\* "if user_id not in self.users: raise UserNotFound"
UserNotFound(user_id) == user_id \notin DOMAIN users

\* ServerAPI.HandleExceptions: the status the decorated view returns.
\* The BadAuthentication, BadRequest and BadGateway handlers end in
\* "return jsonify(...)," followed by the status on a line of its own: the
\* view returns a 1-tuple that carries no status.  Exceptions of other
\* classes are not caught and leave the view.
HandleExceptions(result) ==
    CASE result = "OK" -> "200"
      [] result = "ServerError" -> "500"
      [] result \in {"BadAuthentication", "BadRequest", "BadGateway"} -> "NONE"
      [] OTHER -> "RAISED"

\* ServerAPI.create_user -> VideoChatServer.add_user -> UserManager.add_user
\* -> DictUserStorage.add_user; user_id is what generate_user_id returned
add_user(user_id) ==
    /\ ~req.active
    /\ IF DuplicateUser(user_id)
       THEN /\ users' = users
            /\ last' = [Answer("add_user", "DuplicateUser") EXCEPT
                          !.user_id = user_id, !.generated = 1,
                          !.before = users,
                          !.status = HandleExceptions("DuplicateUser")]
       ELSE /\ users' = Put(users, user_id, User(user_id))
            /\ last' = [Answer("add_user", "OK") EXCEPT
                          !.user_id = user_id, !.generated = 1,
                          !.before = users,
                          !.sess_token = generate_token(user_id),
                          !.status = HandleExceptions("OK")]
    /\ UNCHANGED <<rtc, client, service, media, server_state, sockState, connToken, sockUsers, wsPort, sockPort, threads, req>>

\* mutant: only a missing peer is refused
InvalidStateArgs_peer_only(state, peer) == state # "IDLE" /\ peer = NoId

\* mutant: only a peer given with IDLE is refused
InvalidStateArgs_idle_only(state, peer) == state = "IDLE" /\ peer # NoId

\* UserManager.set_user_state: (state == UserState.IDLE) ^ (peer == None)
InvalidStateArgs(state, peer) == (state = "IDLE") # (peer = NoId)

\* the answer of a registry call: its arguments and the registry it found
Called(op, result, user_id, state, peer) ==
    [Answer(op, result) EXCEPT !.user_id = user_id, !.state = state,
                               !.peer = peer, !.before = users]

\* mutant: the state and the peer are written to every record
set_fields_of_all(f, user_id, state, peer) ==
    [u \in DOMAIN f |-> [f[u] EXCEPT !.state = state, !.peer = peer]]

\* user_info.state = state; user_info.peer = peer; update_user(user_id, user_info)
set_fields(f, user_id, state, peer) ==
    [f EXCEPT ![user_id].state = state, ![user_id].peer = peer]

\* VideoChatServer.set_user_state -> UserManager.set_user_state; an
\* attribute of None cannot be set ("user_info.state = state")
set_user_state(user_id, state, peer) ==
    /\ ~req.active
    /\ IF InvalidStateArgs(state, peer)
       THEN /\ users' = users
            /\ last' = Called("set_user_state", "InvalidState", user_id, state, peer)
       ELSE IF UserNotFound(user_id)
       THEN /\ users' = users
            /\ last' = Called("set_user_state", "UserNotFound", user_id, state, peer)
       ELSE IF users[user_id] = NoneInfo
       THEN /\ users' = users
            /\ last' = Called("set_user_state", "AttributeError", user_id, state, peer)
       ELSE /\ users' = set_fields(users, user_id, state, peer)
            /\ last' = Called("set_user_state", "OK", user_id, state, peer)
    /\ UNCHANGED <<rtc, client, service, media, server_state, sockState, connToken, sockUsers, wsPort, sockPort, threads, req>>

\* VideoChatServer.remove_user -> UserManager.remove_user, which catches the
\* storage's UserNotFound, logs it and returns
remove_user(user_id) ==
    /\ ~req.active
    /\ users' = IF UserNotFound(user_id) THEN users ELSE Del(users, user_id)
    /\ last' = Called("remove_user", "OK", user_id, "-", NoId)
    /\ UNCHANGED <<rtc, client, service, media, server_state, sockState, connToken, sockUsers, wsPort, sockPort, threads, req>>

\* UserManager.get_user -> DictUserStorage.get_user: UserNotFound is raised
\* again; "User(*user_info)" copies the record, and None cannot be unpacked
get_user_result(user_id) ==
    IF UserNotFound(user_id) THEN "UserNotFound"
    ELSE IF users[user_id] = NoneInfo THEN "TypeError"
    ELSE "OK"

\* UserManager.get_user; the User it returns is read back in state and peer
get_user(user_id) ==
    /\ ~req.active
    /\ LET result == get_user_result(user_id) IN
       last' = IF result = "OK"
               THEN Called("get_user", result, user_id,
                           users[user_id].state, users[user_id].peer)
               ELSE Called("get_user", result, user_id, "-", NoId)
    /\ UNCHANGED <<rtc, client, service, media, users, server_state, sockState, connToken, sockUsers, wsPort,
                   sockPort, threads, req>>

\* UserManager.add_user as user_manager.py has it: the record handed to the
\* storage is None; user_id is what generate_user_id returned
UserManager_add_user(user_id) ==
    /\ ~req.active
    /\ IF DuplicateUser(user_id)
       THEN /\ users' = users
            /\ last' = [Called("add_user", "DuplicateUser", user_id, "-", NoId)
                          EXCEPT !.generated = 1]
       ELSE /\ users' = Put(users, user_id, NoneInfo)
            /\ last' = [Called("add_user", "OK", user_id, "-", NoId)
                          EXCEPT !.generated = 1]
    /\ UNCHANGED <<rtc, client, service, media, server_state, sockState, connToken, sockUsers, wsPort, sockPort, threads, req>>

Registry ==
    \/ \E user_id \in Ids : add_user(user_id)
    \/ \E user_id \in Ids, state \in UserStates, peer \in Ids \cup {NoId} :
          set_user_state(user_id, state, peer)
    \/ \E user_id \in Ids : get_user(user_id)
    \/ \E user_id \in Ids : remove_user(user_id)

\* UserManager.generate_token called for an id: it reads no state
UserManager_generate_token(user_id) ==
    /\ ~req.active
    /\ last' = [Called("generate_token", "OK", user_id, "-", NoId)
                  EXCEPT !.sess_token = generate_token(user_id)]
    /\ UNCHANGED <<rtc, client, service, media, users, server_state, sockState, connToken, sockUsers, wsPort,
                   sockPort, threads, req>>

\* the operations of UserManager, called as user_manager.py defines them
Manager ==
    \/ \E user_id \in Ids : UserManager_add_user(user_id)
    \/ \E user_id \in Ids : UserManager_generate_token(user_id)
    \/ \E user_id \in Ids, state \in UserStates, peer \in Ids \cup {NoId} :
          set_user_state(user_id, state, peer)
    \/ \E user_id \in Ids : get_user(user_id)
    \/ \E user_id \in Ids : remove_user(user_id)

\* ------------------------------------------------------------- the broker
\* mutant: a registered user is verified whatever token is presented
verify_user_any_token(user_id, sess_token) == ~UserNotFound(user_id)

\* VideoChatServer.verify_user
verify_user(user_id, sess_token) ==
    IF UserNotFound(user_id) THEN FALSE
    ELSE users[user_id].sess_token = sess_token

\* mutant: only the peer's state is tested
NotIdle_host_only(requester, host) == host.state # "IDLE"

\* VideoChatServer.handle_peer_connection: the two state tests
NotIdle(requester, host) == host.state # "IDLE" \/ requester.state # "IDLE"

\* SocketAPI.init: "if cls.state >= ServerState.LIVE: raise ServerError"
CannotReconfigure(state) == ~StateLt(state, "LIVE")

\* mutant: the UserNotFound of the lookup is not translated
lookup_error_raw == "UserNotFound"

\* VideoChatServer.handle_peer_connection: the UserNotFound of either lookup
\* is caught and BadRequest is raised in its place
lookup_error == "BadRequest"

\* The exception that ends ServerAPI.handle_peer_connection before the peer
\* is contacted, in the order the code tests: HandleAuthentication, then
\* VideoChatServer.handle_peer_connection up to start_websocket -> SocketAPI.init
Rejection(user_id, sess_token, peer_id) ==
    IF ~verify_user(user_id, sess_token) THEN "BadAuthentication"
    ELSE IF user_id = peer_id THEN "BadRequest"
    ELSE IF UserNotFound(user_id) THEN lookup_error
    ELSE IF UserNotFound(peer_id) THEN lookup_error
    ELSE IF NotIdle(users[user_id], users[peer_id]) THEN "InvalidState"
    ELSE IF CannotReconfigure(sockState) THEN "ServerError"
    ELSE "none"

\* SocketAPI.init after its test of the state: endpoint, token, state and
\* the two users, each stored as a User
init(user_id, peer_id) ==
    /\ sockPort' = wsPort
    /\ connToken' = generate_conn_token(user_id, peer_id)
    /\ sockState' = "INITIALIZED"
    /\ sockUsers' = Put(Put(sockUsers, user_id, [kind |-> "User", n |-> user_id]),
                        peer_id, [kind |-> "User", n |-> peer_id])

\* Thread(): the slot a newly started thread takes
FreeSlots == {t \in DOMAIN threads : threads[t] = "none"}

\* ServerAPI.handle_peer_connection up to the call of contact_client:
\* authentication, the tests of VideoChatServer.handle_peer_connection,
\* start_websocket (SocketAPI.init, then the thread is started), and the
\* notification posted to the peer's control endpoint
peer_connection(user_id, sess_token, peer_id) ==
    /\ ~req.active
    /\ LET err == Rejection(user_id, sess_token, peer_id) IN
       IF err # "none"
       THEN /\ last' = [Answer("peer_connection", err) EXCEPT
                          !.user_id = user_id, !.peer_id = peer_id,
                          !.sess_token = sess_token, !.before = users,
                          !.status = HandleExceptions(err)]
            /\ UNCHANGED <<rtc, client, service, media, server_state, users, sockState, connToken, sockUsers, wsPort,
                           sockPort, threads, req>>
       ELSE /\ FreeSlots # {}
            /\ init(user_id, peer_id)
            /\ threads' = [threads EXCEPT ![CHOOSE t \in FreeSlots : TRUE] = "started"]
            /\ req' = [NoReq EXCEPT
                         !.active = TRUE, !.user_id = user_id, !.peer_id = peer_id,
                         !.sess_token = sess_token, !.before = users,
                         !.requester = users[user_id], !.host = users[peer_id],
                         !.notif = [sess_token |-> users[peer_id].sess_token,
                                    peer_id |-> user_id,
                                    socket_endpoint |-> wsPort,
                                    conn_token |-> connToken']]
            /\ UNCHANGED <<rtc, client, service, media, server_state, users, wsPort, last>>

Responses == {"200", "refused", "unreachable"}

\* mutant: only an unreachable endpoint counts, the status is not looked at
Refused_unreachable_only(response) == response = "unreachable"

\* contact_client raised, or "response.status_code != 200"
Refused(response) == response # "200"

\* VideoChatServer.handle_peer_connection after contact_client, and the answer
\* of ServerAPI.handle_peer_connection
peer_answered(response) ==
    /\ req.active
    /\ LET result == IF Refused(response) THEN "BadGateway" ELSE "OK" IN
       last' = [Answer("peer_connection", result) EXCEPT
                  !.user_id = req.user_id, !.peer_id = req.peer_id,
                  !.sess_token = req.sess_token, !.before = req.before,
                  !.requester = req.requester, !.host = req.host,
                  !.opened = TRUE, !.notif = req.notif, !.response = response,
                  !.ret = IF result = "OK"
                          THEN [socket_endpoint |-> wsPort, conn_token |-> connToken]
                          ELSE NoRet,
                  !.status = HandleExceptions(result)]
    /\ req' = NoReq
    /\ UNCHANGED <<rtc, client, service, media, server_state, users, sockState, connToken, sockUsers, wsPort, sockPort, threads>>

\* the session tokens a client may present: its own, its peer's, a made-up one
Presented(user_id, peer_id) ==
    {generate_token(user_id), generate_token(peer_id), ForgedToken}

\* the registry's operations as the broker's runs use them: a user is
\* moved out of IDLE towards its neighbour in the id space and back, and
\* the two kinds of argument that set_user_state refuses are tried
Neighbour(user_id) == (user_id + 1) % NumIds

Transitions(user_id) ==
    {<<"CONNECTING", Neighbour(user_id)>>, <<"IDLE", NoId>>,
     <<"CONNECTED", NoId>>, <<"IDLE", Neighbour(user_id)>>}

Operators ==
    \/ \E user_id \in Ids : add_user(user_id)
    \/ \E user_id \in Ids : \E tr \in Transitions(user_id) :
          set_user_state(user_id, tr[1], tr[2])
    \/ \E user_id \in Ids : remove_user(user_id)

Broker ==
    \/ \E user_id \in Ids, peer_id \in Ids :
          \E sess_token \in Presented(user_id, peer_id) :
             peer_connection(user_id, sess_token, peer_id)
    \/ \E response \in Responses : peer_answered(response)

\* ------------------------------------------------- the signaling channel
\* SocketAPI.run up to the call of socketio.run: a ServerError of the tests
\* before the loop ends the thread; otherwise cls.state = ServerState.LIVE
run(t) ==
    /\ threads[t] = "started"
    /\ IF sockState \in {"NEW", "LIVE", "OPEN"}
       THEN /\ threads' = [threads EXCEPT ![t] = "none"]
            /\ UNCHANGED sockState
       ELSE /\ threads' = [threads EXCEPT ![t] = "bind"]
            /\ sockState' = "LIVE"
    /\ UNCHANGED <<rtc, client, service, media, server_state, users, connToken, sockUsers, wsPort, sockPort, req, last>>

\* SocketAPI.run: socketio.run binds the endpoint and serves
run_serve(t) ==
    /\ threads[t] = "bind"
    /\ threads' = [threads EXCEPT ![t] = "serving"]
    /\ UNCHANGED <<rtc, client, service, media, server_state, users, sockState, connToken, sockUsers, wsPort, sockPort, req, last>>

\* SocketAPI.run, except OSError: the port is in use; the state goes back,
\* set_websocket_endpoint moves both endpoints to the next port, and the
\* loop sets cls.state = ServerState.LIVE again
run_in_use(t) ==
    /\ threads[t] = "bind"
    /\ sockPort < BasePort + MaxPortTries
    /\ sockState' = "LIVE"
    /\ wsPort' = sockPort + 1
    /\ sockPort' = sockPort + 1
    /\ UNCHANGED <<rtc, client, service, media, server_state, users, connToken, sockUsers, threads, req, last>>

\* SocketAPI.kill: socketio.stop() ends socketio.run in the serving thread,
\* which leaves its loop
kill ==
    /\ ~req.active
    /\ IF sockState \notin {"LIVE", "OPEN"}
       THEN /\ last' = Answer("kill", "ServerError")
            /\ UNCHANGED <<sockState, threads>>
       ELSE /\ sockState' = "INITIALIZED"
            /\ threads' = [t \in DOMAIN threads |->
                             IF threads[t] = "serving" THEN "none" ELSE threads[t]]
            /\ last' = Answer("kill", "OK")
    /\ UNCHANGED <<rtc, client, service, media, server_state, users, connToken, sockUsers, wsPort, sockPort, req>>

Channel ==
    \/ \E t \in DOMAIN threads : run(t)
    \/ \E t \in DOMAIN threads : run_serve(t)
    \/ \E t \in DOMAIN threads : run_in_use(t)

Next == Operators \/ Broker \/ Channel

\* ------------------------------------- the signaling channel's handlers
\* the answer of a channel operation: who called with which token, and the
\* state, token and users of SocketAPI as the operation found them
Handled(op, result, user_id, token) ==
    [Answer(op, result) EXCEPT !.user_id = user_id, !.sess_token = token,
                               !.found = sockState, !.token_before = connToken,
                               !.stored = sockUsers]

\* VideoChatServer.start_websocket for requester user_id and host peer_id:
\* SocketAPI.init, then the thread is started
start_websocket(user_id, peer_id) ==
    /\ user_id # peer_id
    /\ IF CannotReconfigure(sockState)
       THEN /\ last' = [Handled("start_websocket", "ServerError", user_id, NoToken)
                          EXCEPT !.peer_id = peer_id]
            /\ UNCHANGED <<sockState, connToken, sockUsers, sockPort, threads>>
       ELSE /\ FreeSlots # {}
            /\ init(user_id, peer_id)
            /\ threads' = [threads EXCEPT ![CHOOSE t \in FreeSlots : TRUE] = "started"]
            /\ last' = [Handled("start_websocket", "OK", user_id, NoToken)
                          EXCEPT !.peer_id = peer_id]
    /\ UNCHANGED <<rtc, client, service, media, users, server_state, wsPort, req>>

\* SocketAPI.run, one statement at a time, as the channel's clients can
\* observe it.  The two tests before the loop:
\* a ServerError ends the thread
run_check(t) ==
    /\ threads[t] = "started"
    /\ threads' = [threads EXCEPT ![t] =
                     IF sockState \in {"NEW", "LIVE", "OPEN"} THEN "none" ELSE "loop"]
    /\ UNCHANGED <<rtc, client, service, media, users, server_state, sockState, connToken, sockUsers, wsPort,
                   sockPort, req, last>>

\* top of the loop: cls.state = ServerState.LIVE, socketio.run is called
run_set_live(t) ==
    /\ threads[t] = "loop"
    /\ sockState' = "LIVE"
    /\ threads' = [threads EXCEPT ![t] = "bind"]
    /\ UNCHANGED <<rtc, client, service, media, users, server_state, connToken, sockUsers, wsPort, sockPort, req, last>>

\* socketio.run has bound the endpoint and serves
run_bound(t) ==
    /\ threads[t] = "bind"
    /\ threads' = [threads EXCEPT ![t] = "serving"]
    /\ UNCHANGED <<rtc, client, service, media, users, server_state, sockState, connToken, sockUsers, wsPort,
                   sockPort, req, last>>

\* mutant: the retry binds the same port again
next_port_same(port) == port

\* Endpoint(cls.endpoint.ip, cls.endpoint.port + 1)
next_port(port) == port + 1

\* except OSError: the state goes back to INITIALIZED, both endpoints move
\* to the next port, "continue"
run_except(t) ==
    /\ threads[t] = "bind"
    /\ sockPort < BasePort + MaxPortTries
    /\ sockState' = "INITIALIZED"
    /\ wsPort' = next_port(sockPort)
    /\ sockPort' = next_port(sockPort)
    /\ threads' = [threads EXCEPT ![t] = "loop"]
    /\ UNCHANGED <<rtc, client, service, media, users, server_state, connToken, sockUsers, req, last>>

\* a client reaches a handler only through a thread that serves
Serving == \E t \in DOMAIN threads : threads[t] = "serving"

\* mutant: the connection token is not compared
verify_connection_any_token(user_id, conn_token) == user_id \in DOMAIN sockUsers

\* SocketAPI.verify_connection
verify_connection(user_id, conn_token) ==
    IF user_id \notin DOMAIN sockUsers THEN FALSE
    ELSE IF conn_token # connToken THEN FALSE
    ELSE TRUE

\* SocketAPI.on_connect: "if cls.state != ServerState.LIVE: return False"
NotLive(state) == state # "LIVE"

\* SocketAPI.on_connect with auth = (user_id, conn_token); returning False
\* refuses the connection
on_connect(user_id, conn_token) ==
    /\ Serving
    /\ IF NotLive(sockState) \/ ~verify_connection(user_id, conn_token)
       THEN /\ sockUsers' = sockUsers
            /\ last' = Handled("on_connect", "refused", user_id, conn_token)
       ELSE /\ sockUsers' = Put(sockUsers, user_id, generate_sess_token(user_id))
            /\ last' = [Handled("on_connect", "accepted", user_id, conn_token)
                          EXCEPT !.issued = generate_sess_token(user_id)]
    /\ UNCHANGED <<rtc, client, service, media, users, server_state, sockState, connToken, wsPort, sockPort,
                   threads, req>>

\* mutant: every token of a user the channel knows is taken
verify_sess_token_any(user_id, sess_token) == TRUE

\* SocketAPI.verify_sess_token, for a user_id in cls.users
verify_sess_token(user_id, sess_token) == sess_token = sockUsers[user_id]

\* SocketAPI.on_message with auth = (user_id, sess_token): verify_sess_token
\* raises UserNotFound for an id that is not in cls.users, and nothing
\* catches it in the handler; a token that differs returns; otherwise
\* send(..., broadcast=True)
on_message(user_id, sess_token) ==
    /\ Serving
    /\ last' = Handled("on_message",
                       IF user_id \notin DOMAIN sockUsers THEN "UserNotFound"
                       ELSE IF ~verify_sess_token(user_id, sess_token) THEN "dropped"
                       ELSE "broadcast",
                       user_id, sess_token)
    /\ UNCHANGED <<rtc, client, service, media, users, server_state, sockState, connToken, sockUsers, wsPort,
                   sockPort, threads, req>>

\* the handshake of user_id was accepted: cls.users holds its token
Attached(user_id) ==
    /\ user_id \in DOMAIN sockUsers
    /\ sockUsers[user_id].kind = "sha256_id"

\* SocketAPI.on_disconnect, sent by a client whose connect was accepted:
\* the handler logs and returns
on_disconnect ==
    /\ Serving
    /\ \E user_id \in DOMAIN sockUsers : Attached(user_id)
    /\ last' = Handled("on_disconnect", "OK", NoId, NoToken)
    /\ UNCHANGED <<rtc, client, service, media, users, server_state, sockState, connToken, sockUsers, wsPort,
                   sockPort, threads, req>>

\* a message arrives at SocketAPI.on_message from the socket of the peer
\* that completed the handshake as sender, with auth = (user_id,
\* sess_token) as the peer chose to fill it (SocketClient.send_message
\* fills it with its own fields); the handler reads auth and nothing of the
\* socket
send_message(sender, user_id, sess_token) ==
    /\ Serving
    /\ Attached(sender)
    /\ last' = [Handled("on_message",
                        IF user_id \notin DOMAIN sockUsers THEN "UserNotFound"
                        ELSE IF ~verify_sess_token(user_id, sess_token) THEN "dropped"
                        ELSE "broadcast",
                        user_id, sess_token)
                  EXCEPT !.sender = sender]
    /\ UNCHANGED <<rtc, client, service, media, users, server_state, sockState, connToken, sockUsers, wsPort,
                   sockPort, threads, req>>

\* the tokens a client may present to the channel
ConnTokens == {generate_conn_token(a, b) : a, b \in Ids} \cup {ForgedToken}
SessTokens == {generate_sess_token(a) : a \in Ids} \cup {ForgedToken}

Handlers ==
    \/ \E user_id \in Ids, peer_id \in Ids : start_websocket(user_id, peer_id)
    \/ \E t \in DOMAIN threads : run_check(t)
    \/ \E t \in DOMAIN threads : run_set_live(t)
    \/ \E t \in DOMAIN threads : run_bound(t)
    \/ \E t \in DOMAIN threads : run_except(t)
    \/ \E user_id \in Ids : \E conn_token \in ConnTokens :
          on_connect(user_id, conn_token)
    \/ \E user_id \in Ids : \E sess_token \in SessTokens :
          on_message(user_id, sess_token)
    \/ on_disconnect
    \/ kill

\* VideoChatServer.set_server_state: a state below the current one is
\* answered with a NotImplementedError (returned, not raised) and not set
set_server_state(state) ==
    /\ ~req.active
    /\ IF StateLt(state, server_state)
       THEN /\ server_state' = server_state
            /\ last' = [Answer("set_server_state", "NotImplementedError") EXCEPT
                          !.state = state, !.found = server_state]
       ELSE /\ server_state' = state
            /\ last' = [Answer("set_server_state", "OK") EXCEPT
                          !.state = state, !.found = server_state]
    /\ UNCHANGED <<rtc, client, service, media, users, sockState, connToken, sockUsers, wsPort, sockPort, threads, req>>

\* the methods of VideoChatServer that set or read its own state
Methods ==
    \/ Operators
    \/ \E state \in {ServerStates[i] : i \in DOMAIN ServerStates} :
          set_server_state(state)

\* the signaling channel: sessions started, served, connected to and killed
SpecChannel == Init /\ [][Handlers]_vars

\* the signaling channel and the peers that send on it
Relay ==
    \/ Handlers
    \/ \E sender \in Ids, user_id \in Ids : \E sess_token \in SessTokens :
          send_message(sender, user_id, sess_token)

SpecRelay == Init /\ [][Relay]_vars

\* VideoChatServer without broker and channel
SpecServer == Init /\ [][Methods]_vars

\* the rendezvous server: registry, broker and signaling channel
Spec == Init /\ [][Next]_vars

\* the registry alone, every operation on every argument
SpecRegistry == Init /\ [][Registry]_vars

\* UserManager alone, with the record its own add_user stores
SpecManager == Init /\ [][Manager]_vars

\* ------------------------------------------------ the broker and its threads
\* the users of the runs where calls for different pairs meet
RaceIds == 0 .. NumIds

\* every user of RaceIds registered and IDLE, room for one thread more
InitRace ==
    /\ users = [user_id \in RaceIds |-> User(user_id)]
    /\ server_state = "INITIALIZED"
    /\ sockState = "NEW"
    /\ connToken = NoToken
    /\ sockUsers = <<>>
    /\ wsPort = BasePort
    /\ sockPort = BasePort
    /\ threads = [t \in 1 .. MaxThreads + 1 |-> "none"]
    /\ req = NoReq
    /\ keys = <<>>
    /\ key_idx = 0
    /\ av_key = Pair(0, 0)
    /\ loop = Idle
    /\ apiState = "INIT"
    /\ sio_connected = FALSE
    /\ caller = "idle"
    /\ rtc = Opened
    /\ last = Answer("build", "OK")

\* the broker's calls, each by the user it names, and the statements of the
\* threads they start; no port is in use
Rivals ==
    \/ \E user_id \in RaceIds, peer_id \in RaceIds :
          peer_connection(user_id, generate_token(user_id), peer_id)
    \/ \E response \in Responses : peer_answered(response)
    \/ \E t \in DOMAIN threads : run_check(t)
    \/ \E t \in DOMAIN threads : run_set_live(t)
    \/ \E t \in DOMAIN threads : run_bound(t)

SpecRace == InitRace /\ [][Rivals]_vars

\* ------------------------------------------------- the control-plane service
\* what the service's lifecycle leaves alone
plane == <<users, server_state, sockState, connToken, sockUsers, wsPort, sockPort, threads, req, media, client, rtc>>

\* mutant: a second start is accepted
AlreadyRunning_never(state) == FALSE

\* cls.state == APIState.LIVE
AlreadyRunning(state) == state = "LIVE"

\* ServerAPI.init
ServerAPI_init ==
    /\ IF AlreadyRunning(apiState)
          THEN /\ last' = [Answer("ServerAPI.init", "ServerError") EXCEPT !.found = apiState]
               /\ UNCHANGED apiState
          ELSE /\ apiState' = "IDLE"
               /\ last' = [Answer("ServerAPI.init", "OK") EXCEPT !.found = apiState]
    /\ UNCHANGED plane

\* ServerAPI.start up to the call of serve_forever
ServerAPI_start ==
    /\ IF apiState = "INIT" \/ AlreadyRunning(apiState)
          THEN /\ last' = [Answer("ServerAPI.start", "ServerError") EXCEPT !.found = apiState]
               /\ UNCHANGED apiState
          ELSE /\ apiState' = "LIVE"
               /\ last' = [Answer("ServerAPI.start", "OK") EXCEPT !.found = apiState]
    /\ UNCHANGED plane

\* ServerAPI.kill
ServerAPI_kill ==
    /\ IF apiState # "LIVE"
          THEN /\ last' = [Answer("ServerAPI.kill", "ServerError") EXCEPT !.found = apiState]
               /\ UNCHANGED apiState
          ELSE /\ apiState' = "IDLE"
               /\ last' = [Answer("ServerAPI.kill", "OK") EXCEPT !.found = apiState]
    /\ UNCHANGED plane

Lifecycle ==
    \/ ServerAPI_init
    \/ ServerAPI_start
    \/ ServerAPI_kill

\* the control-plane service around the server it serves
SpecService == Init /\ [][Lifecycle \/ Operators]_vars

\* ---------------------------------------------------------- the media plane
\* what the media plane leaves alone
control == <<users, server_state, sockState, connToken, sockUsers, wsPort, sockPort, threads, req>>

\* list += tuple: the elements of the tuple are appended one by one
Extend(list, tuple) == list \o tuple

\* mutant: the counter of gen_keys stays where it is
next_key_idx_same(i) == i

\* key_idx += 1
next_key_idx(i) == i + 1

\* the result of the receive handler that ran just before, if one did
Prev ==
    IF last.op \in {"audio_on_message", "video_on_message"} THEN last.result ELSE "-"

\* one iteration of AVController's gen_keys: the generator yields k
gen_keys(k) ==
    /\ Len(keys) < 2 * MaxTicks
    /\ keys' = Extend(keys, <<IntElem(key_idx), BytesElem(k)>>)
    /\ key_idx' = next_key_idx(key_idx)
    /\ last' = [Answer("gen_keys", "OK") EXCEPT !.kept = keys, !.index = key_idx, !.key = k]
    /\ UNCHANGED <<rtc, client, service, control, av_key, loop>>

\* one iteration of send_audio: AVController has no attribute
\* key_buffer_size, the subscript raises before anything is read or sent
send_audio ==
    /\ last' = Answer("send_audio", "AttributeError")
    /\ UNCHANGED <<rtc, client, service, control, media, rtc>>

\* the cipher's decrypt on a received payload: the data when the payload is
\* intact and k is the key it was encrypted with, an error otherwise
decrypt(frame, k) ==
    IF k.type # "bytes" THEN "TypeError"
    ELSE IF frame.intact /\ frame.key = k.value THEN "OK"
    ELSE "ValueError"

\* list[i] with i >= 0
Subscript(list, i) == list[i + 1]

\* bytes[1]: an int, one byte of the key
SecondByte(elem) == IntElem(elem.value)

\* self.av_controller.keys[key_idx][1]
audio_lookup(idx) ==
    IF idx >= Len(keys) THEN [error |-> "IndexError", key |-> IntElem(NoKey)]
    ELSE IF Subscript(keys, idx).type = "int"
         THEN [error |-> "TypeError", key |-> IntElem(NoKey)]
         ELSE [error |-> "-", key |-> SecondByte(Subscript(keys, idx))]

\* AudioClientNamespace.on_message
audio_on_message(frame) ==
    LET Received(result) ==
            [Answer("audio_on_message", result) EXCEPT
                !.frame = frame, !.kept = keys, !.prev = Prev]
        found == audio_lookup(frame.key_idx)
    IN  /\ IF frame.own
              THEN last' = Received("ignored")
              ELSE IF found.error # "-"
                   THEN last' = Received(found.error)
                   ELSE last' = [Received(decrypt(frame, found.key)) EXCEPT
                                    !.delivered = (decrypt(frame, found.key) = "OK"),
                                    !.used = found.key.value]
        /\ UNCHANGED <<rtc, client, service, control, media, rtc>>

\* the messages that can arrive
Frames ==
    {Frame(idx, k, intact, own) :
        idx \in 0 .. MaxTicks, k \in Keys, intact \in BOOLEAN, own \in BOOLEAN}

Audio ==
    \/ \E k \in Keys : gen_keys(k)
    \/ send_audio
    \/ \E frame \in Frames : audio_on_message(frame)

\* the key holder of the video namespace replaces its pair
rotate(k) ==
    /\ av_key.key_idx < MaxTicks
    /\ av_key' = Pair(av_key.key_idx + 1, k)
    /\ last' = [Answer("rotate", "OK") EXCEPT !.pair = av_key]
    /\ UNCHANGED <<rtc, client, service, control, keys, key_idx, loop>>

\* send_video's loop, its first statement: cur_key_idx, key = self.av.key
send_video_read ==
    /\ loop.pc = "top"
    /\ loop' = [pc |-> "read", pair |-> av_key]
    /\ UNCHANGED <<rtc, client, service, control, keys, key_idx, av_key, last>>

\* mutant: the key is read again when the frame is encrypted
encrypt_key_reread(read, current) == current.key

\* the key send_video encrypts with: the one of the pair it read
encrypt_key(read, current) == read.key

\* send_video's loop, the rest of the iteration: capture, encrypt, send
send_video ==
    /\ loop.pc = "read"
    /\ loop' = Idle
    /\ last' = [Answer("send_video", "OK") EXCEPT
                  !.pair = loop.pair,
                  !.frame = Frame(loop.pair.key_idx, encrypt_key(loop.pair, av_key),
                                  TRUE, TRUE)]
    /\ UNCHANGED <<rtc, client, service, control, keys, key_idx, av_key>>

\* VideoClientNamespace.on_message
video_on_message(frame) ==
    LET Received(result) ==
            [Answer("video_on_message", result) EXCEPT
                !.frame = frame, !.pair = av_key, !.prev = Prev]
    IN  /\ IF frame.own
              THEN last' = Received("ignored")
              ELSE IF frame.key_idx # av_key.key_idx
                   THEN last' = Received("dropped")
                   ELSE last' = [Received(decrypt(frame, BytesElem(av_key.key))) EXCEPT
                                    !.delivered =
                                        (decrypt(frame, BytesElem(av_key.key)) = "OK"),
                                    !.used = av_key.key]
        /\ UNCHANGED <<rtc, client, service, control, media, rtc>>

Video ==
    \/ \E k \in Keys : rotate(k)
    \/ send_video_read
    \/ send_video
    \/ \E frame \in Frames : video_on_message(frame)

\* the audio namespace of one client and the key generation it reads
SpecAudio == Init /\ [][Audio]_vars

\* the video namespace of one client and the holder of its current key
SpecVideo == Init /\ [][Video]_vars

\* -------------------------------------------------------------- the codecs
\* bitarrays of up to n bits
BitStrings(n) == UNION {[1 .. m -> {0, 1}] : m \in 0 .. n}

\* zip(data, key) stops at the end of the shorter of the two
ZipLen(data, key) == IF Len(data) < Len(key) THEN Len(data) ELSE Len(key)

\* mutant: the bits are or-ed
XorBit_or(bit1, bit2) == IF bit1 + bit2 > 0 THEN 1 ELSE 0

\* bit1 ^ bit2
XorBit(bit1, bit2) == (bit1 + bit2) % 2

\* XOREncryption.encrypt
XOREncryption_encrypt(data, key) ==
    [i \in 1 .. ZipLen(data, key) |-> XorBit(data[i], key[i])]

\* XOREncryption.decrypt
XOREncryption_decrypt(data, key) ==
    [i \in 1 .. ZipLen(data, key) |-> XorBit(data[i], key[i])]

\* the arguments a cipher is about to be called with
Given(data, key, iv) == [NoCodec EXCEPT !.data = data, !.key = key, !.iv = iv]

\* decrypt(encrypt(data, key), key) of XOREncryption on the given arguments
XOREncryption_roundtrip ==
    LET data == last.codec.data
        key == last.codec.key
    IN  /\ last.op = "build"
        /\ last' = [Answer("XOREncryption", "OK") EXCEPT
                      !.codec = [last.codec EXCEPT
                                   !.encrypted = XOREncryption_encrypt(data, key),
                                   !.decrypted = XOREncryption_decrypt(
                                                     XOREncryption_encrypt(data, key), key)]]
        /\ UNCHANGED <<rtc, client, service, control, media, rtc>>

\* every pair of bit strings as the arguments
InitXOR ==
    /\ Built
    /\ \E data \in BitStrings(MaxBits), key \in BitStrings(MaxBits) :
          last = [Answer("build", "OK") EXCEPT !.codec = Given(data, key, <<>>)]

\* the XOR cipher on every pair of bit strings
SpecXOR == InitXOR /\ [][XOREncryption_roundtrip]_vars

\* the values of a byte
ByteVals == 2 ^ ByteBits

\* iv always has 128 bits: one block
IvBits == ByteBits * BlockBytes

RECURSIVE BitsValue(_, _, _)
\* the big-endian value of the n bits from position first on; the bits
\* past the end of the bitarray count as 0
BitsValue(bits, first, n) ==
    IF n = 0 THEN 0
    ELSE (2 * BitsValue(bits, first, n - 1))
         + (IF first + n - 1 <= Len(bits) THEN bits[first + n - 1] ELSE 0)

\* bitarray.tobytes: the last byte is filled up with zero bits
tobytes(bits) ==
    [j \in 1 .. ((Len(bits) + ByteBits - 1) \div ByteBits) |->
        BitsValue(bits, ((j - 1) * ByteBits) + 1, ByteBits)]

\* bitarray.frombytes on an empty bitarray
frombytes(bytes) ==
    [i \in 1 .. (Len(bytes) * ByteBits) |->
        (bytes[((i - 1) \div ByteBits) + 1]
            \div (2 ^ (ByteBits - 1 - ((i - 1) % ByteBits)))) % 2]

\* Crypto.Util.Padding.pad, pkcs7
pad(data, block_size) ==
    LET n == block_size - (Len(data) % block_size)
    IN  data \o [i \in 1 .. n |-> n]

\* mutant: nothing is stripped
unpad_none(data, block_size) == [ok |-> TRUE, data |-> data]

\* Crypto.Util.Padding.unpad, pkcs7: ValueError for a length that is no
\* multiple of the block size and for an incorrect padding
unpad(data, block_size) ==
    IF Len(data) = 0 \/ Len(data) % block_size # 0
    THEN [ok |-> FALSE, data |-> <<>>]
    ELSE LET n == data[Len(data)]
         IN  IF \/ n < 1
                \/ n > block_size
                \/ \E i \in (Len(data) - n + 1) .. Len(data) : data[i] # n
             THEN [ok |-> FALSE, data |-> <<>>]
             ELSE [ok |-> TRUE, data |-> SubSeq(data, 1, Len(data) - n)]

\* the block cipher, a permutation of the blocks for each key: the bytes
\* are rotated by one place and shifted by the key's bytes
block_encrypt(key, block) ==
    [i \in 1 .. BlockBytes |->
        (block[(i % BlockBytes) + 1] + key[i] + 1) % ByteVals]

\* the inverse permutation
block_decrypt(key, block) ==
    [j \in 1 .. BlockBytes |->
        LET i == ((j + BlockBytes - 2) % BlockBytes) + 1
        IN  (block[i] + (2 * ByteVals) - key[i] - 1) % ByteVals]

\* bytewise exclusive or of two blocks
XorBlock(a, b) == [i \in 1 .. BlockBytes |-> Xor(a[i], b[i])]

RECURSIVE CBC_encrypt(_, _, _)
\* cipher.encrypt in MODE_CBC: each block is xor-ed with the ciphertext
\* block before it, the first one with the iv
CBC_encrypt(key, prev, data) ==
    IF Len(data) < BlockBytes THEN <<>>
    ELSE LET c == block_encrypt(key, XorBlock(SubSeq(data, 1, BlockBytes), prev))
         IN  c \o CBC_encrypt(key, c, SubSeq(data, BlockBytes + 1, Len(data)))

RECURSIVE CBC_decrypt(_, _, _)
\* cipher.decrypt in MODE_CBC
CBC_decrypt(key, prev, data) ==
    IF Len(data) < BlockBytes THEN <<>>
    ELSE LET c == SubSeq(data, 1, BlockBytes)
         IN  XorBlock(block_decrypt(key, c), prev)
                 \o CBC_decrypt(key, c, SubSeq(data, BlockBytes + 1, Len(data)))

\* data[:n] and data[n:] of a bitarray
SliceTo(data, n) == SubSeq(data, 1, IF n < Len(data) THEN n ELSE Len(data))

SliceFrom(data, n) == SubSeq(data, n + 1, Len(data))

\* AESEncryption.encrypt, where AES.new chose iv
AESEncryption_encrypt(data, key, iv) ==
    frombytes(iv)
        \o frombytes(CBC_encrypt(tobytes(key), iv, pad(tobytes(data), BlockBytes)))

\* AESEncryption.decrypt: the bitarray of the plaintext, or a ValueError of
\* AES.new, cipher.decrypt or unpad
AESEncryption_decrypt(data, key) ==
    LET iv == tobytes(SliceTo(data, IvBits))
        cipheredData == tobytes(SliceFrom(data, IvBits))
        originalData == unpad(CBC_decrypt(tobytes(key), iv, cipheredData), BlockBytes)
    IN  IF Len(iv) # BlockBytes \/ Len(cipheredData) % BlockBytes # 0 \/ ~originalData.ok
        THEN [result |-> "ValueError", data |-> <<>>]
        ELSE [result |-> "OK", data |-> frombytes(originalData.data)]

\* decrypt(encrypt(data, key), key) of AESEncryption on the given
\* arguments, with the given iv as the one AES.new chooses
AESEncryption_roundtrip ==
    LET encrypted == AESEncryption_encrypt(last.codec.data, last.codec.key, last.codec.iv)
        decrypted == AESEncryption_decrypt(encrypted, last.codec.key)
    IN  /\ last.op = "build"
        /\ last' = [Answer("AESEncryption", decrypted.result) EXCEPT
                      !.codec = [last.codec EXCEPT !.encrypted = encrypted,
                                                   !.decrypted = decrypted.data]]
        /\ UNCHANGED <<rtc, client, service, control, media, rtc>>

\* byte payloads, with the bytes that look like a padding among them
Payloads ==
    UNION {[1 .. m -> {0, 1, BlockBytes, ByteVals - 1}] : m \in 0 .. MaxBytes}

\* keys of one block
AESKeys == [1 .. BlockBytes -> Keys]

\* the ivs AES.new can choose
IVs == [1 .. BlockBytes -> {0, 1, ByteVals - 1}]

\* every payload, key and iv as the arguments
InitAES ==
    /\ Built
    /\ \E p \in Payloads, k \in AESKeys, iv \in IVs :
          last = [Answer("build", "OK") EXCEPT
                    !.codec = Given(frombytes(p), frombytes(k), iv)]

\* the AES cipher on every payload, key and iv
SpecAES == InitAES /\ [][AESEncryption_roundtrip]_vars

\* ----------------------------------------------------------------------
\* the frontend client (src/frontend/src/middleware/client/client.py)
\*
\* SocketClient.sio is one socketio.Client of the class; sio_connected is
\* its connected flag.  Client.state is NEW or LIVE (lines 179 and 306) and
\* never CONNECTED, so the test of line 367 never raises.  Client.gui is
\* None after construction (line 188) and nothing in the source assigns it;
\* the dialog is an input here: "none" is the attribute as the constructor
\* leaves it, "yes" and "no" are the replies of a dialog put there.

\* how sio.connect ends: the socket is connected, socketio raises its
\* ConnectionError, or something else is raised on the way (Endpoint(...),
\* AV(...))
Outcomes == {"connected", "ConnectionError", "Exception"}

\* the dialog: absent, or its reply to the question
Dialogs == {"none", "yes", "no"}

\* the replies of contact_server to /peer_connection
Replies == {"200", "ConnectionRefused", "UnexpectedResponse"}

\* the endpoints the server hands out
Endpoints == {BasePort, BasePort + 1}

\* the endpoint and the token a client is to connect with
Target(socket_endpoint, conn_token) ==
    [socket_endpoint |-> socket_endpoint, conn_token |-> conn_token]

\* SocketClient.is_connected
SocketClient_is_connected == sio_connected

\* a socketio.Client that is connected raises ConnectionError on connect
Attempt(outcome) ==
    IF sio_connected /\ outcome = "connected" THEN "ConnectionError" ELSE outcome

\* SocketClient.connect: "OK" when it returns, "raised" when it raises;
\* ConnectionError is caught and logged
SocketClient_connect(outcome) ==
    IF outcome = "Exception" THEN "raised" ELSE "OK"

\* Client.connect_to_websocket: SocketClient.init, then start -> run ->
\* connect; what is raised is raised again
connect_to_websocket(outcome) == SocketClient_connect(Attempt(outcome))

\* the connected flag after the attempt
Connected(outcome) == sio_connected \/ Attempt(outcome) = "connected"

\* Client.handle_peer_connection
Client_handle_peer_connection(peer_id, socket_endpoint, conn_token, dialog, outcome) ==
    /\ caller = "idle"
    /\ IF dialog = "none"
       THEN /\ last' = [Answer("Client.handle_peer_connection", "AttributeError")
                          EXCEPT !.peer_id = peer_id, !.answer = dialog,
                                 !.target = Target(socket_endpoint, conn_token),
                                 !.established = sio_connected]
            /\ UNCHANGED sio_connected
       ELSE IF dialog = "yes"
       THEN /\ sio_connected' = Connected(outcome)
            /\ last' = [Answer("Client.handle_peer_connection", "OK")
                          EXCEPT !.peer_id = peer_id, !.answer = dialog,
                                 !.target = Target(socket_endpoint, conn_token),
                                 !.outcome = Attempt(outcome),
                                 !.established = Connected(outcome),
                                 !.returned = IF connect_to_websocket(outcome) = "raised"
                                              THEN "False" ELSE "True"]
       ELSE /\ last' = [Answer("Client.handle_peer_connection", "OK")
                          EXCEPT !.peer_id = peer_id, !.answer = dialog,
                                 !.target = Target(socket_endpoint, conn_token),
                                 !.established = sio_connected,
                                 !.returned = "False"]
            /\ UNCHANGED sio_connected
    /\ UNCHANGED <<caller, service, control, media, rtc>>

\* Client.connect_to_peer up to its loop: the request to the server, the
\* attempt to connect
Client_connect_to_peer(peer_id, reply, socket_endpoint, conn_token, outcome) ==
    /\ caller = "idle"
    /\ IF reply # "200"
       THEN /\ last' = [Answer("Client.connect_to_peer", reply)
                          EXCEPT !.peer_id = peer_id, !.response = reply,
                                 !.established = sio_connected]
            /\ UNCHANGED <<sio_connected, caller>>
       ELSE /\ sio_connected' = Connected(outcome)
            /\ caller' = IF connect_to_websocket(outcome) = "raised"
                         THEN "idle" ELSE "waiting"
            /\ last' = [Answer("Client.connect_to_peer",
                                IF connect_to_websocket(outcome) = "raised"
                                THEN "Exception" ELSE "waiting")
                          EXCEPT !.peer_id = peer_id, !.response = reply,
                                 !.target = Target(socket_endpoint, conn_token),
                                 !.outcome = Attempt(outcome),
                                 !.established = Connected(outcome)]
    /\ UNCHANGED <<service, control, media, rtc>>

\* one turn of the loop of connect_to_peer: it breaks when the socket is
\* connected and turns again when it is not
Client_connect_to_peer_wait ==
    /\ caller = "waiting"
    /\ IF SocketClient_is_connected
       THEN /\ caller' = "idle"
            /\ last' = [last EXCEPT !.result = "OK"]
       ELSE UNCHANGED <<caller, last>>
    /\ UNCHANGED <<sio_connected, service, control, media, rtc>>

\* SocketClient.disconnect
SocketClient_disconnect ==
    /\ caller = "idle"
    /\ sio_connected
    /\ sio_connected' = FALSE
    /\ last' = Answer("SocketClient.disconnect", "OK")
    /\ UNCHANGED <<caller, service, control, media, rtc>>

Frontend ==
    \/ \E peer_id \in Ids, socket_endpoint \in Endpoints, conn_token \in ConnTokens,
          dialog \in Dialogs, outcome \in Outcomes :
          Client_handle_peer_connection(peer_id, socket_endpoint, conn_token,
                                        dialog, outcome)
    \/ \E peer_id \in Ids, reply \in Replies, socket_endpoint \in Endpoints,
          conn_token \in ConnTokens, outcome \in Outcomes :
          Client_connect_to_peer(peer_id, reply, socket_endpoint, conn_token,
                                 outcome)
    \/ Client_connect_to_peer_wait
    \/ SocketClient_disconnect

SpecClient == Init /\ [][Frontend]_vars

\* the loop of connect_to_peer is a running thread: it takes its turns
SpecClientFair == SpecClient /\ WF_vars(Client_connect_to_peer_wait)

\* ----------------------------------------------------------------------
\* the data-channel client (src/client/rpc/rtcClient.py) with an
\* encryption scheme, one medium; the other medium has the same code.  The
\* key channel and the data channel are two data channels: each delivers
\* in order, and nothing orders a message of one against a message of the
\* other.

\* send_keys, one period: a key is generated, sent on the key channel and
\* put on the sender's own queue
send_keys ==
    /\ rtc.made < MaxGen
    /\ rtc' = [rtc EXCEPT !.made = @ + 1,
                          !.key_channel = Append(@, rtc.made + 1),
                          !.sender_queue = Append(@, rtc.made + 1)]
    /\ last' = [Answer("send_keys", "OK") EXCEPT !.key = rtc.made + 1]
    /\ UNCHANGED <<client, service, control, media>>

\* if not key_queue[medium].empty(): key[medium] = await key_queue[medium].get()
TakeKey(key, queue) == IF queue = <<>> THEN key ELSE Head(queue)
Taken(queue) == IF queue = <<>> THEN queue ELSE Tail(queue)

\* send_video / send_audio, one turn: at most one queued key is taken, the
\* frame is encrypted with key[medium] and sent
rtc_send_frame ==
    /\ rtc.sent < MaxFrames
    /\ rtc' = [rtc EXCEPT !.sent = @ + 1,
                          !.sender_key = TakeKey(@, rtc.sender_queue),
                          !.sender_queue = Taken(@),
                          !.data_channel =
                              Append(@, TakeKey(rtc.sender_key, rtc.sender_queue))]
    /\ last' = [Answer("send_frame", "OK")
                  EXCEPT !.key = TakeKey(rtc.sender_key, rtc.sender_queue)]
    /\ UNCHANGED <<client, service, control, media>>

\* on_datachannel, the key channel's on_message
on_key_message ==
    /\ rtc.key_channel # <<>>
    /\ rtc' = [rtc EXCEPT !.key_channel = Tail(@),
                          !.receiver_queue = Append(@, Head(rtc.key_channel))]
    /\ last' = [Answer("on_key_message", "OK") EXCEPT !.key = Head(rtc.key_channel)]
    /\ UNCHANGED <<client, service, control, media>>

\* on_datachannel, the data channel's on_message: at most one queued key
\* is taken and the frame is decrypted with key[medium]; key is the key
\* the frame was encrypted with, used the key it is decrypted with
on_data_message ==
    /\ rtc.data_channel # <<>>
    /\ rtc' = [rtc EXCEPT !.data_channel = Tail(@),
                          !.receiver_key = TakeKey(@, rtc.receiver_queue),
                          !.receiver_queue = Taken(@)]
    /\ last' = [Answer("on_data_message", "OK")
                  EXCEPT !.key = Head(rtc.data_channel),
                         !.used = TakeKey(rtc.receiver_key, rtc.receiver_queue),
                         !.kept = rtc.receiver_queue]
    /\ UNCHANGED <<client, service, control, media>>

DataChannels ==
    \/ send_keys
    \/ rtc_send_frame
    \/ on_key_message
    \/ on_data_message

SpecRTC == Init /\ [][DataChannels]_vars

\* ----------------------------------------------------------------- claims
Registered(user_id) == user_id \in DOMAIN users

IsPeerConnection == last.op = "peer_connection"

\* the caller of the last /peer_connection passed authentication
Authenticated ==
    /\ Registered(last.user_id)
    /\ last.sess_token = users[last.user_id].sess_token

IdleNoPeer(user) == user.state = "IDLE" /\ user.peer = NoId

\* C1: a requestPeerConnection that succeeds found requester and peer IDLE
\* and leaves both CONNECTING, each with the other as its peer.
C1_SuccessConnectsBoth ==
    (IsPeerConnection /\ last.result = "OK") =>
        /\ last.requester.state = "IDLE"
        /\ last.host.state = "IDLE"
        /\ Registered(last.user_id) /\ Registered(last.peer_id)
        /\ users[last.user_id].state = "CONNECTING"
        /\ users[last.user_id].peer = last.peer_id
        /\ users[last.peer_id].state = "CONNECTING"
        /\ users[last.peer_id].peer = last.user_id

\* C2: an authenticated requestPeerConnection between two registered,
\* distinct users of which one is not IDLE fails with InvalidState, changes
\* neither user, opens no signaling channel and notifies nobody.
C2_NotIdleIsInvalidState ==
    ( /\ IsPeerConnection
      /\ Authenticated
      /\ Registered(last.peer_id)
      /\ last.user_id # last.peer_id
      /\ \/ users[last.user_id].state # "IDLE"
         \/ users[last.peer_id].state # "IDLE" ) =>
        /\ last.result = "InvalidState"
        /\ users = last.before
        /\ ~last.opened
        /\ last.notif = NoNotif

C2_Witness ==
    /\ IsPeerConnection
    /\ last.result = "InvalidState"
    /\ Authenticated
    /\ users[last.user_id].state = "CONNECTING"
    /\ users[last.peer_id].state = "IDLE"

C5_WrongTokenIsBadAuthentication ==
    ( /\ IsPeerConnection
      /\ Registered(last.user_id)
      /\ last.sess_token # users[last.user_id].sess_token ) =>
        /\ last.result = "BadAuthentication"
        /\ users = last.before
        /\ ~last.opened
        /\ last.notif = NoNotif

C5_Witness ==
    /\ IsPeerConnection
    /\ last.result = "BadAuthentication"
    /\ Registered(last.user_id) /\ Registered(last.peer_id)
    /\ last.user_id # last.peer_id
    /\ last.sess_token = users[last.peer_id].sess_token

\* C6 as stated: requestPeerConnection fails with BadRequest when the
\* requester or the peer is not registered, and changes no user.
C6_UnknownUserIsBadRequest ==
    ( /\ IsPeerConnection
      /\ ~Registered(last.user_id) \/ ~Registered(last.peer_id) ) =>
        /\ last.result = "BadRequest"
        /\ users = last.before

\* C6 amended: an unregistered requester fails with BadAuthentication; an
\* authenticated requester naming an unregistered peer fails with
\* BadRequest; in both cases no user is changed.
C6_UnknownPeerIsBadRequest ==
    IsPeerConnection =>
        /\ ~Registered(last.user_id) =>
              (last.result = "BadAuthentication" /\ users = last.before)
        /\ (Authenticated /\ ~Registered(last.peer_id)) =>
              (last.result = "BadRequest" /\ users = last.before)

C6_Witness ==
    /\ IsPeerConnection
    /\ Authenticated
    /\ ~Registered(last.peer_id)
    /\ last.result = "BadRequest"

\* the status the control plane documents for each outcome; an exception
\* that leaves the view is answered 500 by the framework
DocumentedStatus(result) ==
    CASE result = "OK" -> {"200"}
      [] result = "BadAuthentication" -> {"403"}
      [] result = "BadRequest" -> {"400"}
      [] result = "BadGateway" -> {"502"}
      [] OTHER -> {"500", "RAISED"}

\* C7: every POST /peer_connection is answered with the status of its
\* outcome: 403, 400, 500 or 502 for the error classes, 200 only on success.
C7_StatusIdentifiesError ==
    IsPeerConnection => last.status \in DocumentedStatus(last.result)

C9_RegisterKeepsIdsUnique ==
    (last.op = "add_user") =>
        /\ (last.result = "OK") =>
              /\ last.user_id \notin DOMAIN last.before
              /\ DOMAIN users = DOMAIN last.before \cup {last.user_id}
              /\ \A u \in DOMAIN last.before : users[u] = last.before[u]
        /\ (last.result # "OK") =>
              /\ last.result = "DuplicateUser"
              /\ users = last.before

C9_Witness ==
    /\ last.op = "add_user"
    /\ last.result = "DuplicateUser"
    /\ Cardinality(DOMAIN users) < NumIds

\* C10: register fails with DuplicateUser only after it has retried with a
\* freshly generated id.
C10_RetriesBeforeDuplicateUser ==
    (last.op = "add_user" /\ last.result = "DuplicateUser") => last.generated > 1

IsSetState == last.op = "set_user_state"

\* C11: set_user_state fails with InvalidState exactly when
\* (state = IDLE) differs from (peer = None), for a user in any state and
\* for an id that is not registered, and a call that fails so leaves the
\* registry as it was.
C11_InvalidStateIffXor ==
    IsSetState =>
        /\ (last.result = "InvalidState") <=>
              ((last.state = "IDLE") # (last.peer = NoId))
        /\ (last.state = "CONNECTED" /\ last.peer = NoId) =>
              last.result = "InvalidState"
        /\ (last.state = "IDLE" /\ last.peer # NoId) =>
              last.result = "InvalidState"
        /\ (last.result = "InvalidState") => users = last.before

C11_Witness ==
    /\ IsSetState
    /\ last.result = "InvalidState"
    /\ last.state = "IDLE" /\ last.peer # NoId
    /\ Registered(last.user_id)
    /\ users[last.user_id].state = "CONNECTED"

\* C12: for a user that add_user created, set_user_state(id, CONNECTING,
\* peer) with a peer succeeds and leaves the user CONNECTING with that peer,
\* and get_user reads the user's state and peer back.
C12_SetStateReadsBack ==
    /\ (IsSetState /\ last.user_id \in DOMAIN last.before
          /\ last.state = "CONNECTING" /\ last.peer # NoId) =>
            /\ last.result = "OK"
            /\ users[last.user_id].state = "CONNECTING"
            /\ users[last.user_id].peer = last.peer
    /\ (last.op = "get_user" /\ Registered(last.user_id)) =>
            /\ last.result = "OK"
            /\ last.state = users[last.user_id].state
            /\ last.peer = users[last.user_id].peer

\* C13: get_user and remove_user of an id that is not registered raise
\* UserNotFound to their caller and leave the registry as it was.
C13_AbsentIsUserNotFound ==
    (last.op \in {"get_user", "remove_user"}
       /\ last.user_id \notin DOMAIN last.before) =>
        /\ last.result = "UserNotFound"
        /\ users = last.before

IsStart == last.op = "start_websocket" /\ last.result = "OK"

\* C14: the connection token of a pair of users does not depend on their
\* order: generate_conn_token(a, b) = generate_conn_token(b, a), for all id
\* codes and for the pair of every session that was started.
C14_ConnTokenCommutative ==
    /\ \A a \in 0 .. MaxCode : \A b \in 0 .. MaxCode :
          generate_conn_token(a, b) = generate_conn_token(b, a)
    /\ IsStart => connToken = generate_conn_token(last.peer_id, last.user_id)

C14_Witness ==
    /\ IsStart
    /\ last.user_id > last.peer_id
    /\ connToken = generate_conn_token(last.user_id, last.peer_id)

\* C15: the token of a session that is started differs from the token of
\* the session started before it, be it a session of the same two users or
\* of two others.
C15_TokenOfOneSession ==
    (IsStart /\ last.token_before # NoToken) => connToken # last.token_before

IsConnect == last.op = "on_connect"

\* C16: a connect is accepted, and a per-connection token issued and stored
\* for the user, only if the channel was LIVE and the conn_token presented
\* was the channel's; a connect that finds the channel not LIVE or presents
\* another token is refused, and no token is issued or stored.
C16_ConnectNeedsLiveAndToken ==
    IsConnect =>
        /\ (last.result = "accepted") =>
              /\ last.found = "LIVE"
              /\ last.sess_token = last.token_before
              /\ last.issued = generate_sess_token(last.user_id)
              /\ sockUsers = Put(last.stored, last.user_id, last.issued)
        /\ (last.found # "LIVE" \/ last.sess_token # last.token_before) =>
              /\ last.result = "refused"
              /\ last.issued = NoToken
              /\ sockUsers = last.stored

C16_Witness ==
    /\ IsConnect
    /\ last.result = "accepted"
    /\ Attached(last.user_id)

IsMessage == last.op = "on_message"

\* C17: a message is broadcast only if its user completed the handshake and
\* the token it carries is the one issued to that user; a message with
\* another token is dropped, one of a user the channel does not know ends
\* in UserNotFound, and in each case the channel keeps serving with its
\* users unchanged.
C17_MessageNeedsIssuedToken ==
    IsMessage =>
        /\ (last.result = "broadcast") =>
              /\ Attached(last.user_id)
              /\ last.sess_token = sockUsers[last.user_id]
        /\ (last.user_id \notin DOMAIN sockUsers) => last.result = "UserNotFound"
        /\ (last.user_id \in DOMAIN sockUsers
              /\ last.sess_token # sockUsers[last.user_id]) => last.result = "dropped"
        /\ Serving
        /\ sockUsers = last.stored

C17_Witness ==
    /\ IsMessage
    /\ last.result = "dropped"
    /\ Attached(last.user_id)
    /\ last.sess_token = ForgedToken

\* C18: after the disconnect of an attached peer the channel is neither LIVE
\* nor OPEN.
C18_DisconnectCloses ==
    (last.op = "on_disconnect") => sockState \notin {"LIVE", "OPEN"}

\* C19: a set_server_state that finds the state CLOSED leaves it CLOSED.
C19_ClosedIsTerminal ==
    (last.op = "set_server_state" /\ last.found = "CLOSED") =>
        server_state = "CLOSED"

\* C20: when a connect is accepted the channel is OPEN if every user of the
\* session is then attached, and LIVE otherwise.
C20_OpenWhenBothAttached ==
    (IsConnect /\ last.result = "accepted") =>
        IF \A user_id \in DOMAIN sockUsers : Attached(user_id)
        THEN sockState = "OPEN"
        ELSE sockState = "LIVE"

\* the position of a state in the enumeration ServerState
Rank(state) ==
    CASE state = "NEW" -> 0
      [] state = "INITIALIZED" -> 1
      [] state = "CLOSED" -> 2
      [] state = "LIVE" -> 3
      [] state = "OPEN" -> 4

\* C21: set_server_state(s) leaves the state as it is when s precedes it
\* in the enumeration and sets it to s otherwise, so the rank of the state
\* never decreases.
C21_StateNeverGoesBack ==
    (last.op = "set_server_state") =>
        /\ server_state = IF Rank(last.state) < Rank(last.found)
                          THEN last.found ELSE last.state
        /\ Rank(server_state) >= Rank(last.found)

C21_Witness ==
    /\ last.op = "set_server_state"
    /\ last.found = "LIVE"
    /\ last.state = "INITIALIZED"
    /\ server_state = "LIVE"

\* C22: the k-th key gen_keys generates is stored right after the index k:
\* the indices in AVController.keys are 0, 1, 2, ... in the order of
\* generation, each tick stores the next one, and none appears twice.
C22_IndicesCountFromZero ==
    /\ \A n \in 0 .. (Len(keys) \div 2) - 1 :
          /\ keys[2 * n + 1] = IntElem(n)
          /\ keys[2 * n + 2].type = "bytes"
    /\ (last.op = "gen_keys") =>
          /\ last.index = Len(last.kept) \div 2
          /\ keys = last.kept \o <<IntElem(last.index), BytesElem(last.key)>>

C22_Witness ==
    /\ last.op = "gen_keys"
    /\ last.index = 2
    /\ Len(keys) = 6

\* the number of keys generated into a list of AVController.keys' layout
Generated(list) == Len(list) \div 2

\* the key generated with index i
KeyOf(list, i) == list[2 * i + 2].value

\* i is one of the KeyWindow most recent indices
InWindow(list, i) == i < Generated(list) /\ i >= Generated(list) - KeyWindow

\* C23: after a tick of gen_keys the store holds at most KeyWindow entries.
C23_StoreBounded ==
    (last.op = "gen_keys") => Generated(keys) <= KeyWindow

IsAudioReceive == last.op = "audio_on_message" /\ ~last.frame.own

IsReceive == last.op \in {"audio_on_message", "video_on_message"} /\ ~last.frame.own

Errors == {"IndexError", "TypeError", "ValueError", "AttributeError"}

\* C24: the lookup of the audio receive path finds the key generated with
\* index i when i is one of the KeyWindow most recent indices, and finds no
\* key and raises nothing for an older or never generated index.
C24_LookupByIndex ==
    IsAudioReceive =>
        IF InWindow(last.kept, last.frame.key_idx)
        THEN last.used = KeyOf(last.kept, last.frame.key_idx)
        ELSE last.used = NoKey /\ last.result \notin Errors

\* C25: a frame send_video emits carries the index and is encrypted with
\* the key of one and the same pair, whatever happened to the current pair
\* between the read and the send.
C25_FrameNamesItsKey ==
    (last.op = "send_video") =>
        /\ last.frame.key_idx = last.pair.key_idx
        /\ last.frame.key = last.pair.key

C25_Witness ==
    /\ last.op = "send_video"
    /\ av_key.key_idx > last.frame.key_idx
    /\ av_key.key # last.frame.key

\* the index of the received frame is in the receiver's window: the audio
\* path's store, the video path's current pair
Known ==
    IF last.op = "audio_on_message"
    THEN InWindow(last.kept, last.frame.key_idx)
    ELSE last.frame.key_idx = last.pair.key_idx

\* the key the receiver's window holds for the index of the received frame
StoredKey ==
    IF last.op = "audio_on_message"
    THEN KeyOf(last.kept, last.frame.key_idx)
    ELSE last.pair.key

\* the received frame is intact and was encrypted with the stored key
WellFormed == last.frame.intact /\ last.frame.key = StoredKey

\* C26: a received frame whose index is not in the receiver's window is
\* dropped: nothing is delivered and no error is raised.
C26_UnknownIndexDropped ==
    (IsReceive /\ ~Known) => (~last.delivered /\ last.result \notin Errors)

\* C27: a received frame with a known index whose payload does not decrypt
\* delivers nothing, and a well-formed frame with a known index that
\* arrives after a failed one is delivered.
C27_SelfHeals ==
    (IsReceive /\ Known) =>
        /\ ~last.frame.intact => ~last.delivered
        /\ (last.prev \in Errors /\ WellFormed) => last.delivered

\* C28: a received frame whose index is in the receiver's window is
\* decrypted with the key stored under that index and delivered.
C28_WindowDecrypts ==
    (IsReceive /\ Known /\ WellFormed) =>
        (last.delivered /\ last.used = StoredKey)

\* C29: with XOREncryption, decrypt(encrypt(p, k), k) = p for every bit
\* string p and every key k that is at least as long as p.
C29_XorRoundTrip ==
    (last.op = "XOREncryption" /\ Len(last.codec.key) >= Len(last.codec.data)) =>
        last.codec.decrypted = last.codec.data

C29_Witness ==
    /\ last.op = "XOREncryption"
    /\ Len(last.codec.data) = MaxBits
    /\ Len(last.codec.key) >= Len(last.codec.data)
    /\ last.codec.encrypted # last.codec.data
    /\ last.codec.decrypted = last.codec.data

\* C30: with AESEncryption, decrypt(encrypt(p, k), k) = p for every payload
\* p of whole bytes and every key k, whichever iv encrypt chose.
C30_AesRoundTrip ==
    (last.op = "AESEncryption") =>
        /\ last.result = "OK"
        /\ last.codec.decrypted = last.codec.data

C30_Witness ==
    /\ last.op = "AESEncryption"
    /\ Len(last.codec.data) = MaxBytes * ByteBits
    /\ tobytes(last.codec.data)[MaxBytes] = 1
    /\ Len(last.codec.encrypted) > IvBits + Len(last.codec.data)
    /\ SliceFrom(last.codec.encrypted, IvBits) # last.codec.data
    /\ last.codec.decrypted = last.codec.data

IsLifecycle == last.op \in {"ServerAPI.init", "ServerAPI.start", "ServerAPI.kill"}

\* the calls the lifecycle INIT -init-> IDLE -start-> LIVE -kill-> IDLE
\* has no place for
OutOfOrder ==
    \/ last.op = "ServerAPI.start" /\ last.found \in {"INIT", "LIVE"}
    \/ last.op = "ServerAPI.init" /\ last.found = "LIVE"
    \/ last.op = "ServerAPI.kill" /\ last.found # "LIVE"

\* C31: ServerAPI goes INIT -init-> IDLE -start-> LIVE -kill-> IDLE; a
\* start before init or while LIVE, an init while LIVE and a kill while not
\* LIVE fail with ServerError and leave the state as it was.
C31_ServiceLifecycle ==
    IsLifecycle =>
        IF OutOfOrder
        THEN last.result = "ServerError" /\ apiState = last.found
        ELSE /\ last.result = "OK"
             /\ apiState = CASE last.op = "ServerAPI.init" -> "IDLE"
                              [] last.op = "ServerAPI.start" -> "LIVE"
                              [] last.op = "ServerAPI.kill" -> "IDLE"

C31_Witness ==
    /\ last.op = "ServerAPI.start"
    /\ last.found = "LIVE"
    /\ last.result = "ServerError"
    /\ apiState = "LIVE"

Brokered(answer) == answer.op = "peer_connection" /\ answer.result = "OK"

\* C33: of two calls of /peer_connection that share a user the second does
\* not succeed after the first did: no user is brokered into two sessions.
C33_OneSessionPerUser ==
    [][(Brokered(last) /\ req.active /\ ~req'.active /\ Brokered(last')) =>
          {last.user_id, last.peer_id} \cap {last'.user_id, last'.peer_id} = {}]_vars

FailedGateway == last.op = "peer_connection" /\ last.result = "BadGateway"

\* C35: after a /peer_connection that failed with BadGateway the channel it
\* opened does not accept a connection with its token, and the next
\* /peer_connection is not refused with the ServerError of a channel that
\* is running.
C35_BadGatewayLeavesNothing ==
    [][FailedGateway =>
          /\ ~(sockState' = "LIVE" /\ connToken' = last.notif.conn_token
                 /\ \E t \in DOMAIN threads : threads'[t] = "serving")
          /\ (last' # last /\ last'.op = "peer_connection") =>
                 last'.result # "ServerError"]_vars

HandledPeer == last.op = "Client.handle_peer_connection" /\ last.result = "OK"

\* C37: Client.handle_peer_connection returns True exactly when the user
\* accepted and the client's socket is connected to the signaling endpoint
\* when it returns; it returns False when the user refused or the attempt
\* failed.
C37_TrueIffConnected ==
    HandledPeer =>
       /\ (last.returned = "True") <=> (last.answer = "yes" /\ last.established)
       /\ (last.answer = "no" \/ ~last.established) => last.returned = "False"

\* C38: Client.connect_to_peer terminates: once the server has answered
\* with an endpoint and a token and the attempt to connect is over, the
\* call returns, whether the attempt succeeded or failed.
C38_ConnectToPeerReturns == (caller = "waiting") ~> (caller = "idle")

\* C39: in the data-channel client every frame the receiving peer decrypts
\* is decrypted with the key the sending peer encrypted it with, however
\* key generation, key messages and frames interleave.
C39_SameKeyBothEnds == (last.op = "on_data_message") => last.used = last.key

\* C40: the signaling channel relays a message under user u's id only if
\* the socket that sent it completed the handshake as u; another attached
\* peer gets nothing relayed under u's id.
C40_RelayedFromOwner ==
    (last.op = "on_message" /\ last.sender # NoId /\ last.result = "broadcast")
        => last.sender = last.user_id

====
